---- MODULE Spec2Model ----
(***************************************************************************)
(* A model of the realtime speech generator: the model registry built from *)
(* the process environment (models_config.py) and the generation request   *)
(* with its receive loop, playback sink, WAV file and result display       *)
(* (app.py).                                                               *)
(*                                                                         *)
(* Text is a sequence of code points, a byte string a sequence of 0..255,  *)
(* base64 text a sequence of alphabet indexes (0..63, 64 for '=', 65 for a *)
(* character outside the alphabet).  An environment key is the pair of its *)
(* prefix (kind) and its suffix; a suffix is a sequence of tokens, the     *)
(* token "DEPLOYMENT_NAME_" standing for that very text inside a suffix.   *)
(***************************************************************************)
EXTENDS Integers, Sequences, FiniteSets, TLC

VARIABLES
    env,          \* os.environ: key -> value
    imported,     \* models_config has been imported (MODELS is built)
    MODELS,       \* models_config.MODELS: model id -> [name, suffix]
    pc,           \* per request: where the request is
    model_id,     \* per request: the model id passed to generate_response
    received,     \* per request: the messages client.recv() has returned, in order
    locals,       \* per request: transcript, audio_buffer, done of process_llm_response
    audio_stream, \* per request: the playback sink
    session,      \* per request: the RTLowLevelClient session
    outcome,      \* per request: what process_llm_response / generate_response gave back
    tmp_file,     \* per request: the temporary WAV file
    ui,           \* per request: what the page shows
    unsets        \* number of environment keys removed after import

vars == <<env, imported, MODELS, pc, model_id, received, locals, audio_stream,
          session, outcome, tmp_file, ui, unsets>>

-----------------------------------------------------------------------------
(* Bounds *)

\* Messages one receive loop gets at most.
MaxMsgs == 3

\* Messages each of two concurrent receive loops gets at most.
MaxConcurrentMsgs == 2

\* Environment keys removed after the registry was built, at most.
MaxUnset == 1

-----------------------------------------------------------------------------
(* models_config.py *)

DN == "DEPLOYMENT_NAME_"

RequiredKinds == {"ENDPOINT", "API_KEY", "API_VERSION", "DEPLOYMENT_NAME", "API_TYPE"}

Kinds == RequiredKinds \cup {"MODEL"}

Key(kind, suffix) == [kind |-> kind, suffix |-> suffix]

\* str.lower on one token
LowerTok(t) ==
    CASE t = "X" -> "x"
      [] t = DN -> "deployment_name_"
      [] OTHER -> t

\* suffix.lower()
Lower(s) == [i \in 1..Len(s) |-> LowerTok(s[i])]

\* [v for v in os.environ if v.startswith('DEPLOYMENT_NAME_')]
deployment_vars(e) == {k \in DOMAIN e : k.kind = "DEPLOYMENT_NAME"}

\* var.replace('DEPLOYMENT_NAME_', ''): every occurrence of the text is removed,
\* the prefix and any further one inside the suffix.
ExtractSuffix(var) == SelectSeq(var.suffix, LAMBDA t : t # DN)

\* Faulty variant of required_vars_exist: only the deployment name is asked for.
required_vars_exist_deployment_only(e, suffix) ==
    Key("DEPLOYMENT_NAME", suffix) \in DOMAIN e

\* all(f"{key}_{suffix}" in os.environ for key in [...])
required_vars_exist(e, suffix) ==
    \A kind \in RequiredKinds : Key(kind, suffix) \in DOMAIN e

\* os.environ.get(f"MODEL_{suffix}", os.environ[var])
display_name(e, var, suffix) ==
    IF Key("MODEL", suffix) \in DOMAIN e THEN e[Key("MODEL", suffix)] ELSE e[var]

\* models[model_id] = {...}
Put(f, k, v) == [x \in DOMAIN f \cup {k} |-> IF x = k THEN v ELSE f[x]]

\* The body of the for loop, over the variables in the order os.environ yields them.
RECURSIVE DiscoverFrom(_, _, _)
DiscoverFrom(e, order, models) ==
    IF order = <<>> THEN models
    ELSE LET var    == Head(order)
             suffix == ExtractSuffix(var)
         IN DiscoverFrom(e, Tail(order),
                IF required_vars_exist(e, suffix)
                THEN Put(models, Lower(suffix),
                         [name |-> display_name(e, var, suffix), suffix |-> suffix])
                ELSE models)

\* The orders in which os.environ may yield a set of keys.
Orders(S) ==
    {f \in [1..Cardinality(S) -> S] : \A i, j \in DOMAIN f : f[i] = f[j] => i = j}

_discover_models(e, order) == DiscoverFrom(e, order, <<>>)

get_model_names(models) == {<<id, models[id].name>> : id \in DOMAIN models}

\* get_model_info raises ValueError for an unknown id
get_model_info_raises(models, id) == id \notin DOMAIN models

get_env_variable_keys(models, id) ==
    LET suffix == models[id].suffix
    IN [endpoint        |-> Key("ENDPOINT", suffix),
        api_key         |-> Key("API_KEY", suffix),
        api_version     |-> Key("API_VERSION", suffix),
        deployment_name |-> Key("DEPLOYMENT_NAME", suffix),
        api_type        |-> Key("API_TYPE", suffix)]

-----------------------------------------------------------------------------
(* The environment *)

\* The value a deployer gives a key: a non-empty text naming the key.
ValueOf(k) == <<k.kind>> \o k.suffix

\* The keys of one suffix group, of the given kinds.
Group(kinds, suffix) == {Key(kind, suffix) : kind \in kinds}

\* The environment holding exactly the keys ks, each with its value.
EnvOf(ks) == [k \in ks |-> ValueOf(k)]

\* del os.environ[k]
Unset(e, k) == [x \in DOMAIN e \ {k} |-> e[x]]

-----------------------------------------------------------------------------
(* Library functions the receive loop calls *)

\* binascii.a2b_base64 (base64.b64decode with validate=False) over s from
\* position i: quad is the position in the current group of four, left the
\* bits carried over, pads the '=' seen, out the bytes decoded.
RECURSIVE a2b_base64(_, _, _, _, _, _)
a2b_base64(s, i, quad, left, pads, out) ==
    IF i > Len(s)
    THEN [ok |-> quad = 0, bytes |-> out]
    ELSE LET c == s[i] IN
         IF c = 64
         THEN IF quad >= 2
              THEN IF quad + pads + 1 >= 4
                   THEN [ok |-> TRUE, bytes |-> out]
                   ELSE a2b_base64(s, i + 1, quad, left, pads + 1, out)
              ELSE a2b_base64(s, i + 1, quad, left, pads, out)
         ELSE IF c > 64
         THEN a2b_base64(s, i + 1, quad, left, pads, out)
         ELSE CASE quad = 0 -> a2b_base64(s, i + 1, 1, c, 0, out)
                [] quad = 1 -> a2b_base64(s, i + 1, 2, c % 16, 0,
                                   Append(out, (left * 4 + c \div 16) % 256))
                [] quad = 2 -> a2b_base64(s, i + 1, 3, c % 4, 0,
                                   Append(out, (left * 16 + c \div 4) % 256))
                [] quad = 3 -> a2b_base64(s, i + 1, 0, 0, 0,
                                   Append(out, (left * 64 + c) % 256))

b64decode(s) == a2b_base64(s, 1, 0, 0, 0, <<>>)

\* One little-endian signed 16-bit sample.
Int16(lo, hi) ==
    LET u == lo + 256 * hi IN IF u >= 32768 THEN u - 65536 ELSE u

\* np.frombuffer(buffer, dtype=np.int16) raises ValueError unless the buffer
\* is a whole number of 2-byte elements.
frombuffer_raises(buffer) == Len(buffer) % 2 # 0

frombuffer(buffer) ==
    [i \in 1..(Len(buffer) \div 2) |-> Int16(buffer[2 * i - 1], buffer[2 * i])]

-----------------------------------------------------------------------------
(* Messages of the session *)

\* base64 texts: "AQI=" (bytes 1 2), "AwQ=" (bytes 3 4), "BQ==" (byte 5),
\* "AQI" (incorrect padding).
B64_12 == <<0, 16, 8, 64>>
B64_34 == <<0, 48, 16, 64>>
B64_5 == <<1, 16, 64, 64>>
B64_bad == <<0, 16, 8>>

\* transcript fragments: "H", "i"
Txt_H == <<72>>
Txt_i == <<105>>

ResponseDone == [type |-> "response.done"]
Error(payload) == [type |-> "error", error |-> payload]
AudioTranscriptDelta(d) == [type |-> "response.audio_transcript.delta", delta |-> d]
AudioDelta(d) == [type |-> "response.audio.delta", delta |-> d]
Other == [type |-> "session.created"]

Messages ==
    {ResponseDone, Error("boom"), Other,
     AudioTranscriptDelta(Txt_H), AudioTranscriptDelta(Txt_i),
     AudioDelta(B64_12), AudioDelta(B64_34), AudioDelta(B64_5), AudioDelta(B64_bad)}

IsTerminal(m) == m.type \in {"response.done", "error"}

-----------------------------------------------------------------------------
(* Values *)

\* Optional values: None is the empty sequence, a value x is <<x>>.
None == <<>>
Some(x) == <<x>>

NoExc == "none"

Requests == {"r1", "r2"}

\* The ids a caller may pass to generate_response.
ModelIds == {<<"x">>, <<"y">>}

\* tempfile.NamedTemporaryFile(delete=False, suffix=".wav").name
TempName(r) == <<"tmp", r, ".wav">>

-----------------------------------------------------------------------------
(* app.py: the playback sink and the WAV file *)

SAMPLE_RATE == 24000
CHANNELS == 1

NoStream == [acquired |-> FALSE, active |-> FALSE, stops |-> 0, closes |-> 0,
             written |-> <<>>]

\* sd.OutputStream(...) and audio_stream.start()
setup_audio_stream ==
    [acquired |-> TRUE, active |-> TRUE, stops |-> 0, closes |-> 0, written |-> <<>>]

\* audio_stream.write(np.frombuffer(buffer, dtype=np.int16))
play_audio_chunk(stream, buffer) ==
    [stream EXCEPT !.written = Append(@, frombuffer(buffer))]

\* The finally clause: audio_stream.stop(); audio_stream.close()
release_audio_stream(stream) ==
    [stream EXCEPT !.active = FALSE, !.stops = @ + 1, !.closes = @ + 1]

\* Faulty variant of save_to_wav_file: the sample width is one byte.
save_to_wav_file_8bit(audio_data) ==
    [nchannels |-> CHANNELS, sampwidth |-> 1, framerate |-> SAMPLE_RATE,
     nframes |-> Len(audio_data) \div CHANNELS, data |-> audio_data]

\* wave.open(filename, 'wb') ... writeframes(audio_data): the file written
save_to_wav_file(audio_data) ==
    [nchannels |-> CHANNELS, sampwidth |-> 2, framerate |-> SAMPLE_RATE,
     nframes |-> Len(audio_data) \div (2 * CHANNELS), data |-> audio_data]

\* struct.pack('<H', n), struct.pack('<L', n)
LE16(n) == <<n % 256, (n \div 256) % 256>>
LE32(n) == LE16(n % 65536) \o LE16(n \div 65536)

\* The bytes of the file wave.Wave_write leaves on close: the header
\* 'RIFF' size 'WAVE' 'fmt ' 16 PCM channels rate bytes/s block-align bits
\* 'data' size, patched to the number of bytes written, and then those bytes
\* (all of them, also when they are not a whole number of frames).
wav_bytes(w) ==
    <<82, 73, 70, 70>> \o LE32(36 + Len(w.data)) \o <<87, 65, 86, 69>>
    \o <<102, 109, 116, 32>> \o LE32(16) \o LE16(1) \o LE16(w.nchannels)
    \o LE32(w.framerate) \o LE32(w.nchannels * w.framerate * w.sampwidth)
    \o LE16(w.nchannels * w.sampwidth) \o LE16(w.sampwidth * 8)
    \o <<100, 97, 116, 97>> \o LE32(Len(w.data)) \o w.data

-----------------------------------------------------------------------------
(* app.py: process_llm_response, one message *)

\* Faulty variant of Frame: the accumulators are one module-level object, shared by
\* every request.
FrameShared(r) ==
    [l |-> locals["r1"], s |-> audio_stream[r], u |-> ui[r], exc |-> NoExc]

\* What one pass of the loop body works on: the locals, the sink, the page,
\* and the exception raised (NoExc when none).
Frame(r) ==
    [l |-> locals[r], s |-> audio_stream[r], u |-> ui[r], exc |-> NoExc]

\* Faulty variant of on_response_done: done is not set.
on_response_done_goes_on(F, m) == F

\* case "response.done"
on_response_done(F, m) == [F EXCEPT !.l.done = TRUE]

\* Faulty variant of on_error: done is not set.
on_error_not_done(F, m) ==
    [F EXCEPT !.u.errors = Append(@, <<"Error", m.error>>)]

\* case "error"
on_error(F, m) ==
    [F EXCEPT !.l.done = TRUE, !.u.errors = Append(@, <<"Error", m.error>>)]

\* Faulty variant of on_audio_transcript_delta: the fragment is put in front.
on_audio_transcript_delta_prepend(F, m, fails) ==
    LET transcript == m.delta \o F.l.transcript IN
    IF fails
    THEN [F EXCEPT !.l.transcript = transcript, !.exc = "ObserverError"]
    ELSE [F EXCEPT !.l.transcript = transcript, !.u.placeholder = Some(transcript)]

\* case "response.audio_transcript.delta"; fails: text_placeholder.markdown raises
on_audio_transcript_delta(F, m, fails) ==
    LET transcript == F.l.transcript \o m.delta IN
    IF fails
    THEN [F EXCEPT !.l.transcript = transcript, !.exc = "ObserverError"]
    ELSE [F EXCEPT !.l.transcript = transcript, !.u.placeholder = Some(transcript)]

\* Faulty variant of on_audio_delta: the chunk is appended to the buffer before
\* it is played.
on_audio_delta_extend_first(F, m, fails) ==
    LET buffer == b64decode(m.delta) IN
    IF ~buffer.ok THEN [F EXCEPT !.exc = "binascii.Error"]
    ELSE IF frombuffer_raises(buffer.bytes)
    THEN [F EXCEPT !.exc = "ValueError", !.l.audio_buffer = @ \o buffer.bytes]
    ELSE IF fails
    THEN [F EXCEPT !.exc = "PortAudioError", !.l.audio_buffer = @ \o buffer.bytes]
    ELSE [F EXCEPT !.s = play_audio_chunk(@, buffer.bytes),
                   !.l.audio_buffer = @ \o buffer.bytes]

\* case "response.audio.delta"; fails: audio_stream.write raises
on_audio_delta(F, m, fails) ==
    LET buffer == b64decode(m.delta) IN
    IF ~buffer.ok THEN [F EXCEPT !.exc = "binascii.Error"]
    ELSE IF frombuffer_raises(buffer.bytes) THEN [F EXCEPT !.exc = "ValueError"]
    ELSE IF fails THEN [F EXCEPT !.exc = "PortAudioError"]
    ELSE [F EXCEPT !.s = play_audio_chunk(@, buffer.bytes),
                   !.l.audio_buffer = @ \o buffer.bytes]

\* Faulty variant of on_other: an unknown tag is an error.
on_other_raises(F, m) == [F EXCEPT !.exc = "ValueError"]

\* case _
on_other(F, m) == F

\* match message.type
match_message(F, m, fails) ==
    CASE m.type = "response.done" -> on_response_done(F, m)
      [] m.type = "error" -> on_error(F, m)
      [] m.type = "response.audio_transcript.delta" -> on_audio_transcript_delta(F, m, fails)
      [] m.type = "response.audio.delta" -> on_audio_delta(F, m, fails)
      [] OTHER -> on_other(F, m)

\* Faulty variant of on_recv_failure: a closed session ends the loop like response.done.
on_recv_failure_as_done(F, how) == [F EXCEPT !.l.done = TRUE]

\* client.recv() did not deliver a message: it raised ("raises"), or it
\* returned None on a closed socket ("none"), and message.type then raises.
on_recv_failure(F, how) ==
    [F EXCEPT !.exc = IF how = "raises" THEN "ConnectionError" ELSE "AttributeError"]

\* Faulty variant of after_pass: the sink is released after the loop, not in a finally
\* clause, so an exception skips it.
after_pass_no_finally(F) ==
    IF F.exc # NoExc
    THEN [pc |-> "raised", s |-> F.s, exc |-> F.exc, ret |-> None]
    ELSE IF F.l.done
    THEN [pc |-> "processed", s |-> release_audio_stream(F.s), exc |-> NoExc,
          ret |-> Some([transcript |-> F.l.transcript, audio_buffer |-> F.l.audio_buffer])]
    ELSE [pc |-> "receiving", s |-> F.s, exc |-> NoExc, ret |-> None]

\* Where the loop stands after one pass: the exception leaves through the
\* finally clause, done leaves the loop, through the finally clause, to the
\* return; otherwise the next message is awaited.
after_pass(F) ==
    IF F.exc # NoExc
    THEN [pc |-> "raised", s |-> release_audio_stream(F.s), exc |-> F.exc, ret |-> None]
    ELSE IF F.l.done
    THEN [pc |-> "processed", s |-> release_audio_stream(F.s), exc |-> NoExc,
          ret |-> Some([transcript |-> F.l.transcript, audio_buffer |-> F.l.audio_buffer])]
    ELSE [pc |-> "receiving", s |-> F.s, exc |-> NoExc, ret |-> None]

\* An exception that leaves asyncio.run is shown by the page.
Raise(u, exc) == [u EXCEPT !.exception = exc]

\* The state after one pass of the loop that ended in frame F; broken: the
\* transport failed in this pass.
Pass(r, F, broken) ==
    LET a == after_pass(F) IN
    /\ locals' = [locals EXCEPT ![r] = F.l]
    /\ audio_stream' = [audio_stream EXCEPT ![r] = a.s]
    /\ ui' = [ui EXCEPT ![r] = IF a.exc # NoExc THEN Raise(F.u, a.exc) ELSE F.u]
    /\ pc' = [pc EXCEPT ![r] = a.pc]
    /\ outcome' = [outcome EXCEPT ![r].ret = a.ret, ![r].exc = a.exc]
    /\ session' = [session EXCEPT ![r].closed = (a.exc # NoExc),
                                   ![r].recvs = @ + 1,
                                   ![r].broken = broken]

-----------------------------------------------------------------------------
(* Initial state *)

NoLocals == [transcript |-> <<>>, audio_buffer |-> <<>>, done |-> FALSE]

\* recvs counts the calls of client.recv(); broken: the transport failed
NoSession == [opened |-> FALSE, sent |-> FALSE, closed |-> FALSE, recvs |-> 0,
              broken |-> FALSE]

\* ret: what process_llm_response returned; wav_exc: what create_audio_file
\* raised; result: what generate_response returned; exc: what reached the page
NoOutcome == [ret |-> None, wav_exc |-> NoExc, result |-> None, exc |-> NoExc]

NoFile == [created |-> FALSE, exists |-> FALSE, wav |-> None]

EmptyPage ==
    [errors |-> <<>>, warnings |-> <<>>, placeholder |-> None, success |-> FALSE,
     text |-> None, audio |-> None, download |-> None, exception |-> NoExc]

RequestsIdle ==
    /\ pc = [r \in Requests |-> "idle"]
    /\ model_id = [r \in Requests |-> <<>>]
    /\ received = [r \in Requests |-> <<>>]
    /\ locals = [r \in Requests |-> NoLocals]
    /\ audio_stream = [r \in Requests |-> NoStream]
    /\ session = [r \in Requests |-> NoSession]
    /\ outcome = [r \in Requests |-> NoOutcome]
    /\ tmp_file = [r \in Requests |-> NoFile]
    /\ ui = [r \in Requests |-> EmptyPage]
    /\ unsets = 0

\* The environment of the application: one complete suffix group, with or
\* without the optional MODEL_ key.
AppEnvs == {EnvOf(Group(Kinds, <<"X">>)), EnvOf(Group(RequiredKinds, <<"X">>))}

\* The state once models_config has been imported.
Init ==
    /\ env \in AppEnvs
    /\ imported = TRUE
    /\ \E order \in Orders(deployment_vars(env)) : MODELS = _discover_models(env, order)
    /\ RequestsIdle

-----------------------------------------------------------------------------
(* Actions *)

\* A key leaves os.environ after the registry was built.
EnvUnset(k) ==
    /\ imported
    /\ unsets < MaxUnset
    /\ k \in DOMAIN env
    /\ env' = Unset(env, k)
    /\ unsets' = unsets + 1
    /\ UNCHANGED <<imported, MODELS, pc, model_id, received, locals, audio_stream,
                   session, outcome, tmp_file, ui>>

\* Faulty variant of config_error: only the registry is consulted, the values are
\* taken with a default.
config_error_registry_only(models, e, id) == get_model_info_raises(models, id)

\* The try block of generate_response: the names of the model's keys and
\* their values; ValueError (unknown id) or KeyError (key not set).
config_error(models, e, id) ==
    \/ get_model_info_raises(models, id)
    \/ LET env_keys == get_env_variable_keys(models, id) IN
       \/ env_keys.endpoint \notin DOMAIN e
       \/ env_keys.api_key \notin DOMAIN e
       \/ env_keys.deployment_name \notin DOMAIN e

\* generate_response up to the opening of the session.
GenerateResponse(r, id) ==
    /\ imported
    /\ pc[r] = "idle"
    /\ model_id' = [model_id EXCEPT ![r] = id]
    /\ IF config_error(MODELS, env, id)
       THEN /\ ui' = [ui EXCEPT ![r].errors = Append(@, <<"Model configuration error">>)]
            /\ outcome' = [outcome EXCEPT ![r].result =
                               Some([transcript |-> None, audio_file |-> None])]
            /\ pc' = [pc EXCEPT ![r] = "generated"]
       ELSE /\ pc' = [pc EXCEPT ![r] = "connecting"]
            /\ UNCHANGED <<ui, outcome>>
    /\ UNCHANGED <<env, imported, MODELS, received, locals, audio_stream, session,
                   tmp_file, unsets>>

\* async with RTLowLevelClient(...), client.send(...), and the start of
\* process_llm_response up to the first client.recv().
OpenSession(r, how) ==
    /\ pc[r] = "connecting"
    /\ CASE how = "connect_fails" ->
              /\ pc' = [pc EXCEPT ![r] = "raised"]
              /\ outcome' = [outcome EXCEPT ![r].exc = "ConnectionError"]
              /\ ui' = [ui EXCEPT ![r] = Raise(@, "ConnectionError")]
              /\ UNCHANGED <<session, audio_stream, locals>>
         [] how = "no_device" ->
              /\ pc' = [pc EXCEPT ![r] = "raised"]
              /\ session' = [session EXCEPT ![r].opened = TRUE, ![r].sent = TRUE,
                                             ![r].closed = TRUE]
              /\ outcome' = [outcome EXCEPT ![r].exc = "PortAudioError"]
              /\ ui' = [ui EXCEPT ![r] = Raise(@, "PortAudioError")]
              /\ UNCHANGED <<audio_stream, locals>>
         [] OTHER ->
              /\ pc' = [pc EXCEPT ![r] = "receiving"]
              /\ session' = [session EXCEPT ![r].opened = TRUE, ![r].sent = TRUE]
              /\ audio_stream' = [audio_stream EXCEPT ![r] = setup_audio_stream]
              /\ locals' = [locals EXCEPT ![r] = NoLocals]
              /\ UNCHANGED <<outcome, ui>>
    /\ UNCHANGED <<env, imported, MODELS, model_id, received, tmp_file, unsets>>

\* One pass of the loop: client.recv() returns m and the match handles it.
\* The session delivers at most max messages.
Recv(r, m, fails, max) ==
    /\ pc[r] = "receiving"
    /\ ~locals[r].done
    /\ Len(received[r]) < max
    /\ fails => m.type \in {"response.audio_transcript.delta", "response.audio.delta"}
    /\ received' = [received EXCEPT ![r] = Append(@, m)]
    /\ Pass(r, match_message(Frame(r), m, fails), FALSE)
    /\ UNCHANGED <<env, imported, MODELS, model_id, tmp_file, unsets>>

\* One pass of the loop in which client.recv() delivers no message.
RecvFailure(r, how) ==
    /\ pc[r] = "receiving"
    /\ ~locals[r].done
    /\ Pass(r, on_recv_failure(Frame(r), how), TRUE)
    /\ UNCHANGED <<env, imported, MODELS, model_id, received, tmp_file, unsets>>

\* Faulty variant of create_audio_file: no check for an empty buffer.
create_audio_file_no_guard(file, name, audio_buffer, fails) ==
    IF fails
    THEN [file |-> [created |-> TRUE, exists |-> TRUE, wav |-> None],
          audio_file |-> None, exc |-> "OSError"]
    ELSE [file |-> [created |-> TRUE, exists |-> TRUE,
                    wav |-> Some(save_to_wav_file(audio_buffer))],
          audio_file |-> Some(name), exc |-> NoExc]

\* create_audio_file; fails: writing the WAV data raises
create_audio_file(file, name, audio_buffer, fails) ==
    IF audio_buffer = <<>>
    THEN [file |-> file, audio_file |-> None, exc |-> NoExc]
    ELSE IF fails
    THEN [file |-> [created |-> TRUE, exists |-> TRUE, wav |-> None],
          audio_file |-> None, exc |-> "OSError"]
    ELSE [file |-> [created |-> TRUE, exists |-> TRUE,
                    wav |-> Some(save_to_wav_file(audio_buffer))],
          audio_file |-> Some(name), exc |-> NoExc]

\* The end of generate_response: the session is closed, the audio file is
\* created and the pair is returned.
CreateAudioFile(r, fails) ==
    /\ pc[r] = "processed"
    /\ LET ret == outcome[r].ret[1]
           c   == create_audio_file(tmp_file[r], TempName(r), ret.audio_buffer, fails)
       IN /\ session' = [session EXCEPT ![r].closed = TRUE]
          /\ tmp_file' = [tmp_file EXCEPT ![r] = c.file]
          /\ IF c.exc # NoExc
             THEN /\ pc' = [pc EXCEPT ![r] = "raised"]
                  /\ outcome' = [outcome EXCEPT ![r].exc = c.exc, ![r].wav_exc = c.exc]
                  /\ ui' = [ui EXCEPT ![r] = Raise(@, c.exc)]
             ELSE /\ pc' = [pc EXCEPT ![r] = "generated"]
                  /\ outcome' = [outcome EXCEPT ![r].result =
                         Some([transcript |-> Some(ret.transcript),
                               audio_file |-> c.audio_file])]
                  /\ UNCHANGED ui
    /\ UNCHANGED <<env, imported, MODELS, model_id, received, locals, audio_stream, unsets>>

\* display_audio_response; how: "ok", "read_fails" (open or read raises),
\* "unlink_fails" (os.unlink raises)
display_audio_response(u, file, audio_file, how) ==
    IF audio_file = None
    THEN [u |-> u, file |-> file, exc |-> NoExc]
    ELSE IF how = "read_fails"
    THEN [u |-> u, file |-> file, exc |-> "OSError"]
    ELSE LET audio_bytes == file.wav
             shown == [u EXCEPT !.audio = audio_bytes, !.download = audio_bytes]
         IN IF how = "unlink_fails"
            THEN [u |-> [shown EXCEPT !.warnings =
                             Append(@, <<"Could not remove temporary file">>)],
                  file |-> file, exc |-> NoExc]
            ELSE [u |-> shown, file |-> [file EXCEPT !.exists = FALSE], exc |-> NoExc]

\* app() after asyncio.run(generate_response(...)) has returned.
Display(r, how) ==
    /\ pc[r] = "generated"
    /\ LET result == outcome[r].result[1] IN
       IF result.transcript = None
       THEN /\ ui' = [ui EXCEPT ![r].errors = Append(@, <<"Failed to generate response">>)]
            /\ pc' = [pc EXCEPT ![r] = "shown"]
            /\ UNCHANGED <<tmp_file, outcome>>
       ELSE LET page == [ui[r] EXCEPT !.success = TRUE, !.text = result.transcript]
                d    == display_audio_response(page, tmp_file[r], result.audio_file, how)
            IN /\ tmp_file' = [tmp_file EXCEPT ![r] = d.file]
               /\ IF d.exc # NoExc
                  THEN /\ pc' = [pc EXCEPT ![r] = "raised"]
                       /\ outcome' = [outcome EXCEPT ![r].exc = d.exc]
                       /\ ui' = [ui EXCEPT ![r] = Raise(d.u, d.exc)]
                  ELSE /\ pc' = [pc EXCEPT ![r] = "shown"]
                       /\ ui' = [ui EXCEPT ![r] = d.u]
                       /\ UNCHANGED outcome
    /\ UNCHANGED <<env, imported, MODELS, model_id, received, locals, audio_stream,
                   session, unsets>>

\* The steps of one request whose session delivers at most max messages of msgs.
Step(r, msgs, max) ==
    \/ \E id \in ModelIds : GenerateResponse(r, id)
    \/ \E how \in {"ok", "connect_fails", "no_device"} : OpenSession(r, how)
    \/ \E m \in msgs, fails \in BOOLEAN : Recv(r, m, fails, max)
    \/ \E how \in {"raises", "none"} : RecvFailure(r, how)
    \/ \E fails \in BOOLEAN : CreateAudioFile(r, fails)
    \/ \E how \in {"ok", "read_fails", "unlink_fails"} : Display(r, how)

\* One page session generating responses.
Clients == {"r1"}

Next ==
    \/ \E r \in Clients : Step(r, Messages, MaxMsgs)
    \/ \E k \in DOMAIN env : EnvUnset(k)

Spec == Init /\ [][Next]_vars

\* Two page sessions generating at once, their receive loops interleaved at
\* the await points; each session delivers messages of ConcurrentMessages.
ConcurrentMessages ==
    {ResponseDone, Error("boom"), AudioTranscriptDelta(Txt_H),
     AudioTranscriptDelta(Txt_i), AudioDelta(B64_12), AudioDelta(B64_34)}

InitConcurrent ==
    /\ env = EnvOf(Group(Kinds, <<"X">>))
    /\ imported = TRUE
    /\ \E order \in Orders(deployment_vars(env)) : MODELS = _discover_models(env, order)
    /\ RequestsIdle

NextConcurrent == \E r \in Requests : Step(r, ConcurrentMessages, MaxConcurrentMsgs)

SpecConcurrent == InitConcurrent /\ [][NextConcurrent]_vars

-----------------------------------------------------------------------------
(* The import of models_config over any environment *)

\* The suffixes a deployer chose: two that differ in letter case only, and one
\* that itself holds the text DEPLOYMENT_NAME_.
Suffixes == {<<"X">>, <<"x">>, <<DN, "X">>}

\* The kinds of key a suffix group may hold: all six, all but one, or none.
Shapes == {Kinds, {}} \cup {Kinds \ {kind} : kind \in Kinds}

\* The environment e with the keys of ks set to the empty text (KEY= in .env).
EmptyAt(e, ks) == [k \in DOMAIN e |-> IF k \in ks THEN <<>> ELSE e[k]]

\* The environments of those key sets, with at most one value empty.
EnvSnapshots ==
    UNION {LET e == EnvOf(UNION {Group(shape[sfx], sfx) : sfx \in Suffixes})
           IN {e} \cup {EmptyAt(e, {k}) : k \in DOMAIN e} :
              shape \in [Suffixes -> Shapes]}

InitRegistry ==
    /\ env \in EnvSnapshots
    /\ imported = FALSE
    /\ MODELS = <<>>
    /\ RequestsIdle

\* MODELS = _discover_models(), at import time
ImportModelsConfig(order) ==
    /\ ~imported
    /\ imported' = TRUE
    /\ MODELS' = _discover_models(env, order)
    /\ UNCHANGED <<env, pc, model_id, received, locals, audio_stream, session,
                   outcome, tmp_file, ui, unsets>>

NextRegistry == \E order \in Orders(deployment_vars(env)) : ImportModelsConfig(order)

SpecRegistry == InitRegistry /\ [][NextRegistry]_vars

-----------------------------------------------------------------------------
(* script.py *)

\* Messages the receive loop of the script gets at most.
MaxScriptMsgs == 3

\* The one run of the script.
Main == "r1"

ScriptKeys ==
    {Key("AZURE_OPENAI_API_KEY", <<>>), Key("AZURE_OPENAI_ENDPOINT", <<>>),
     Key("AZURE_OPENAI_DEPLOYMENT_NAME", <<>>)}

InitScript ==
    /\ env \in {EnvOf(ks) : ks \in SUBSET ScriptKeys}
    /\ imported = FALSE
    /\ MODELS = <<>>
    /\ RequestsIdle

\* api_key = os.environ[...], endpoint = ..., deployment = ...: KeyError
\* when one is not set.
ScriptStart ==
    /\ pc[Main] = "idle"
    /\ IF ScriptKeys \subseteq DOMAIN env
       THEN /\ pc' = [pc EXCEPT ![Main] = "connecting"]
            /\ UNCHANGED outcome
       ELSE /\ pc' = [pc EXCEPT ![Main] = "raised"]
            /\ outcome' = [outcome EXCEPT ![Main].exc = "KeyError"]
    /\ UNCHANGED <<env, imported, MODELS, model_id, received, locals, audio_stream,
                   session, tmp_file, ui, unsets>>

\* async with RTLowLevelClient(...), client.send(...), done = False
ScriptOpen(how) ==
    /\ pc[Main] = "connecting"
    /\ IF how = "connect_fails"
       THEN /\ pc' = [pc EXCEPT ![Main] = "raised"]
            /\ outcome' = [outcome EXCEPT ![Main].exc = "ConnectionError"]
            /\ UNCHANGED session
       ELSE /\ pc' = [pc EXCEPT ![Main] = "receiving"]
            /\ session' = [session EXCEPT ![Main].opened = TRUE, ![Main].sent = TRUE]
            /\ UNCHANGED outcome
    /\ UNCHANGED <<env, imported, MODELS, model_id, received, locals, audio_stream,
                   tmp_file, ui, unsets>>

\* The match statement of text_in_audio_out: no playback, and no check that
\* the decoded bytes are whole samples.
script_match(l, m) ==
    CASE m.type \in {"response.done", "error"} ->
             [l |-> [l EXCEPT !.done = TRUE], exc |-> NoExc]
      [] m.type = "response.audio_transcript.delta" ->
             [l |-> [l EXCEPT !.transcript = @ \o m.delta], exc |-> NoExc]
      [] m.type = "response.audio.delta" ->
             LET buffer == b64decode(m.delta)
             IN IF buffer.ok
                THEN [l |-> [l EXCEPT !.audio_buffer = @ \o buffer.bytes], exc |-> NoExc]
                ELSE [l |-> l, exc |-> "binascii.Error"]
      [] OTHER -> [l |-> l, exc |-> NoExc]

\* The state after one pass of the loop of the script.
ScriptPass(l, exc, broken) ==
    /\ locals' = [locals EXCEPT ![Main] = l]
    /\ pc' = [pc EXCEPT ![Main] = IF exc # NoExc THEN "raised"
                                  ELSE IF l.done THEN "processed" ELSE "receiving"]
    /\ outcome' = [outcome EXCEPT ![Main].exc = exc]
    /\ session' = [session EXCEPT ![Main].closed = (exc # NoExc \/ l.done),
                                   ![Main].recvs = @ + 1,
                                   ![Main].broken = broken]

\* One pass of the loop: client.recv() returns m.
ScriptRecv(m) ==
    /\ pc[Main] = "receiving"
    /\ Len(received[Main]) < MaxScriptMsgs
    /\ received' = [received EXCEPT ![Main] = Append(@, m)]
    /\ LET a == script_match(locals[Main], m) IN ScriptPass(a.l, a.exc, FALSE)
    /\ UNCHANGED <<env, imported, MODELS, model_id, audio_stream, tmp_file, ui, unsets>>

\* One pass of the loop in which client.recv() delivers no message.
ScriptRecvFailure(how) ==
    /\ pc[Main] = "receiving"
    /\ ScriptPass(locals[Main],
                  IF how = "raises" THEN "ConnectionError" ELSE "AttributeError", TRUE)
    /\ UNCHANGED <<env, imported, MODELS, model_id, received, audio_stream, tmp_file,
                   ui, unsets>>

\* if audio_buffer: save_to_wav_file(audio_buffer), and the transcript is
\* printed; fails: writing the file raises.
ScriptSave(fails) ==
    /\ pc[Main] = "processed"
    /\ LET audio_buffer == locals[Main].audio_buffer IN
       IF audio_buffer = <<>>
       THEN /\ pc' = [pc EXCEPT ![Main] = "shown"]
            /\ ui' = [ui EXCEPT ![Main].text = Some(locals[Main].transcript)]
            /\ UNCHANGED <<tmp_file, outcome>>
       ELSE IF fails
       THEN /\ pc' = [pc EXCEPT ![Main] = "raised"]
            /\ tmp_file' = [tmp_file EXCEPT ![Main] =
                                [created |-> TRUE, exists |-> TRUE, wav |-> None]]
            /\ outcome' = [outcome EXCEPT ![Main].exc = "OSError"]
            /\ UNCHANGED ui
       ELSE /\ pc' = [pc EXCEPT ![Main] = "shown"]
            /\ tmp_file' = [tmp_file EXCEPT ![Main] =
                                [created |-> TRUE, exists |-> TRUE,
                                 wav |-> Some(save_to_wav_file(audio_buffer))]]
            /\ ui' = [ui EXCEPT ![Main].text = Some(locals[Main].transcript)]
            /\ UNCHANGED outcome
    /\ UNCHANGED <<env, imported, MODELS, model_id, received, locals, audio_stream,
                   session, unsets>>

NextScript ==
    \/ ScriptStart
    \/ \E how \in {"ok", "connect_fails"} : ScriptOpen(how)
    \/ \E m \in Messages : ScriptRecv(m)
    \/ \E how \in {"raises", "none"} : ScriptRecvFailure(how)
    \/ \E fails \in BOOLEAN : ScriptSave(fails)

SpecScript == InitScript /\ [][NextScript]_vars

-----------------------------------------------------------------------------
(* app.py on a session that delivers a terminal message *)

\* Messages the session delivers at most, the terminal one included.
MaxLiveMsgs == 3

\* One pass of the loop on a session whose stream holds a terminal message:
\* the last message the session has is a terminal one.
LiveRecv(r, m, fails) ==
    /\ Len(received[r]) = MaxLiveMsgs - 1 => IsTerminal(m)
    /\ Recv(r, m, fails, MaxLiveMsgs)

NextLive ==
    \E r \in Clients :
        \/ \E id \in ModelIds : GenerateResponse(r, id)
        \/ \E how \in {"ok", "connect_fails", "no_device"} : OpenSession(r, how)
        \/ \E m \in Messages, fails \in BOOLEAN : LiveRecv(r, m, fails)

\* await client.recv() returns a message
Delivers == \E r \in Clients, m \in Messages, fails \in BOOLEAN : LiveRecv(r, m, fails)

\* Every client.recv() eventually returns a message.
SpecLive == Init /\ [][NextLive]_vars /\ WF_vars(Delivers)

-----------------------------------------------------------------------------
(* Properties *)

Last(ms) == ms[Len(ms)]

HasTerminal(ms) == \E i \in 1..Len(ms) : IsTerminal(ms[i])

\* The messages before the first terminal message.
RECURSIVE BeforeTerminal(_)
BeforeTerminal(ms) ==
    IF ms = <<>> \/ IsTerminal(Head(ms)) THEN <<>>
    ELSE <<Head(ms)>> \o BeforeTerminal(Tail(ms))

\* The delta texts of the transcript deltas of ms, in order, concatenated.
RECURSIVE TranscriptOf(_)
TranscriptOf(ms) ==
    IF ms = <<>> THEN <<>>
    ELSE (IF Head(ms).type = "response.audio_transcript.delta" THEN Head(ms).delta ELSE <<>>)
         \o TranscriptOf(Tail(ms))

\* The decoded payloads of the audio deltas of ms, in order, concatenated.
RECURSIVE AudioOf(_)
AudioOf(ms) ==
    IF ms = <<>> THEN <<>>
    ELSE (IF Head(ms).type = "response.audio.delta" THEN b64decode(Head(ms).delta).bytes
          ELSE <<>>)
         \o AudioOf(Tail(ms))

Returned(r) == outcome[r].ret # None

\* C1: when process_llm_response returns, the transcript is the concatenation,
\* in arrival order, of the texts of the transcript deltas received before the
\* first terminal message, and the audio buffer is the concatenation, in
\* arrival order, of the decoded payloads of the audio deltas received before
\* it: nothing is dropped, duplicated or reordered.
C1_StreamingOrderPreserved ==
    \A r \in Requests :
        Returned(r) =>
            /\ outcome[r].ret[1].transcript = TranscriptOf(BeforeTerminal(received[r]))
            /\ outcome[r].ret[1].audio_buffer = AudioOf(BeforeTerminal(received[r]))

\* C1 witness: a run returned after the transcript deltas "H" and "i" and the
\* terminal message.
C1_Witness ==
    \E r \in Requests :
        /\ Returned(r)
        /\ Len(received[r]) = 3
        /\ outcome[r].ret[1].transcript = Txt_H \o Txt_i

\* C2: once a terminal message has been received, client.recv() is not called
\* again and no further message is taken: the transcript, the audio buffer and
\* what was written to the sink stay as they are.
C2_NoReceiveAfterTerminal ==
    [][\A r \in Requests :
          HasTerminal(received[r]) =>
              /\ received'[r] = received[r]
              /\ session'[r].recvs = session[r].recvs
              /\ locals'[r] = locals[r]
              /\ audio_stream'[r].written = audio_stream[r].written]_vars

\* C2 witness: a run that ended on a terminal message before the session's
\* bound, and went on to the end of the request.
C2_Witness ==
    \E r \in Requests :
        /\ pc[r] = "shown"
        /\ HasTerminal(received[r])
        /\ Len(received[r]) < MaxMsgs
        /\ locals[r].transcript # <<>>

\* The receive loop of r has ended.
LoopEnded(r) == pc[r] \notin {"idle", "connecting", "receiving"}

\* The receive loop of r ended on an error message.
EndedOnError(r) ==
    /\ LoopEnded(r)
    /\ received[r] # <<>>
    /\ Last(received[r]).type = "error"
    /\ ~session[r].broken

\* C3: a run whose loop ended on an error message gives its caller a failure,
\* not a return value like that of a run that ended on response.done.
C3_ErrorOutcomeIsFailure ==
    \A r \in Requests :
        EndedOnError(r) =>
            /\ outcome[r].ret = None
            /\ outcome[r].exc # NoExc

\* C4: when the transport fails before a terminal message, the run ends with
\* an exception: process_llm_response and generate_response return nothing,
\* and the page shows the exception and no success.
C4_TransportFailureIsDistinct ==
    \A r \in Requests :
        (session[r].broken /\ ~HasTerminal(received[r])) =>
            /\ pc[r] = "raised"
            /\ outcome[r].ret = None
            /\ outcome[r].result = None
            /\ outcome[r].exc \in {"ConnectionError", "AttributeError"}
            /\ ui[r].exception = outcome[r].exc
            /\ ~ui[r].success

\* C4 witness: the transport failed after a transcript delta had arrived.
C4_Witness ==
    \E r \in Requests :
        /\ session[r].broken
        /\ locals[r].transcript # <<>>
        /\ ~HasTerminal(received[r])

\* The sink of r was acquired and the run has left process_llm_response.
SinkDue(r) == audio_stream[r].acquired /\ LoopEnded(r)

\* C5: on every way out of process_llm_response the sink has been stopped and
\* closed exactly once, inside it the sink is open, and nothing is written to
\* a sink that has been released.
C5_SinkReleasedOnce ==
    /\ [](\A r \in Requests :
            /\ SinkDue(r) =>
                  /\ audio_stream[r].stops = 1
                  /\ audio_stream[r].closes = 1
                  /\ ~audio_stream[r].active
            /\ pc[r] = "receiving" =>
                  /\ audio_stream[r].stops = 0
                  /\ audio_stream[r].closes = 0
                  /\ audio_stream[r].active)
    /\ [][\A r \in Requests :
             audio_stream[r].closes > 0 =>
                 audio_stream'[r].written = audio_stream[r].written]_vars

\* C5 witness: the sink write raised after an earlier chunk had been played,
\* and the sink was released.
C5_Witness ==
    \E r \in Requests :
        /\ pc[r] = "raised"
        /\ outcome[r].exc = "PortAudioError"
        /\ audio_stream[r].written # <<>>
        /\ audio_stream[r].closes = 1

KnownTags ==
    {"response.done", "error", "response.audio_transcript.delta", "response.audio.delta"}

\* C6: a message with any other tag changes neither the transcript, the audio
\* buffer, the done flag, the sink nor the page, raises nothing, and the loop
\* awaits the next message.
C6_OtherTagIgnored ==
    [][\A r \in Requests :
          (/\ Len(received'[r]) = Len(received[r]) + 1
           /\ Last(received'[r]).type \notin KnownTags) =>
              /\ locals'[r] = locals[r]
              /\ audio_stream'[r] = audio_stream[r]
              /\ ui'[r] = ui[r]
              /\ outcome'[r] = outcome[r]
              /\ pc'[r] = "receiving"]_vars

\* C6 witness: the loop awaits the next message after a message with an
\* unknown tag, with a transcript accumulated before it.
C6_Witness ==
    \E r \in Requests :
        /\ pc[r] = "receiving"
        /\ Len(received[r]) = 2
        /\ Last(received[r]).type \notin KnownTags
        /\ locals[r].transcript # <<>>

\* generate_response of r returned a transcript.
Generated(r) ==
    /\ outcome[r].result # None
    /\ outcome[r].result[1].transcript # None

C8_RequestsIsolated ==
    /\ [](\A r, q \in Requests :
            received[r] = received[q] =>
                /\ (pc[r] = "receiving" /\ pc[q] = "receiving") => locals[r] = locals[q]
                /\ (Returned(r) /\ Returned(q)) => outcome[r].ret = outcome[q].ret)
    /\ [][\A r \in Requests :
             session'[r].recvs # session[r].recvs =>
                 \A q \in Requests \ {r} :
                     /\ received'[q] = received[q]
                     /\ locals'[q] = locals[q]
                     /\ audio_stream'[q] = audio_stream[q]
                     /\ outcome'[q] = outcome[q]]_vars

\* C8 witness: both requests have returned, with different transcripts and
\* different audio, each from its own session's deltas.
C8_Witness ==
    \E r, q \in Requests :
        /\ Returned(r) /\ Returned(q)
        /\ received[r] = <<AudioTranscriptDelta(Txt_H), ResponseDone>>
        /\ received[q] = <<AudioDelta(B64_34), ResponseDone>>
        /\ outcome[r].ret[1] = [transcript |-> Txt_H, audio_buffer |-> <<>>]
        /\ outcome[q].ret[1] = [transcript |-> <<>>, audio_buffer |-> <<3, 4>>]

\* The model id is not in the registry, or one of the three keys that
\* generate_response reads for it is not set.
ConfigMissing(id) ==
    \/ id \notin DOMAIN MODELS
    \/ \E kind \in {"ENDPOINT", "API_KEY", "DEPLOYMENT_NAME"} :
           Key(kind, MODELS[id].suffix) \notin DOMAIN env

NoneNone == Some([transcript |-> None, audio_file |-> None])

\* C9: a generate_response whose model id or keys are missing shows the
\* configuration error and returns (None, None); no session is opened, no
\* request sent and no sink acquired by it, then or later.
C9_ConfigurationErrorFirst ==
    /\ [][\A r \in Requests :
             (pc[r] = "idle" /\ pc'[r] # "idle" /\ ConfigMissing(model_id'[r])) =>
                 /\ pc'[r] = "generated"
                 /\ outcome'[r].result = NoneNone
                 /\ ui'[r].errors = <<<<"Model configuration error">>>>]_vars
    /\ [](\A r \in Requests :
            outcome[r].result = NoneNone =>
                /\ session[r] = NoSession
                /\ audio_stream[r] = NoStream
                /\ received[r] = <<>>
                /\ ~ui[r].success)

\* C9 witness: a model of the registry whose key was removed from the
\* environment was requested, and the request has ended.
C9_Witness ==
    \E r \in Requests :
        /\ pc[r] = "shown"
        /\ model_id[r] \in DOMAIN MODELS
        /\ outcome[r].result = NoneNone
        /\ ~session[r].opened

\* C10: after the import, the registry holds the lowercased suffix of a
\* DEPLOYMENT_NAME_ key exactly when all five keys of that suffix are set.
C10_DiscoveryCompleteness ==
    imported =>
        \A sfx \in Suffixes :
            Key("DEPLOYMENT_NAME", sfx) \in DOMAIN env =>
                (Lower(sfx) \in DOMAIN MODELS
                    <=> \A kind \in RequiredKinds : Key(kind, sfx) \in DOMAIN env)

\* The keys generate_response reads for a model: endpoint, API key, deployment.
CredentialKeys(id) ==
    LET env_keys == get_env_variable_keys(MODELS, id)
    IN {env_keys.endpoint, env_keys.api_key, env_keys.deployment_name}

\* C11 as stated: after the import, the three credential keys of every model
\* of the registry are set to non-empty values.
C11_CredentialsNonEmpty ==
    imported =>
        \A id \in DOMAIN MODELS :
            \A k \in CredentialKeys(id) : k \in DOMAIN env /\ env[k] # <<>>

\* C11 amended: after the import, the three credential keys of every model of
\* the registry are set in the environment (to a value that may be empty).
C11_CredentialsPresent ==
    imported =>
        \A id \in DOMAIN MODELS :
            \A k \in CredentialKeys(id) : k \in DOMAIN env

\* C11 witness: a model is in the registry whose endpoint is set to the empty
\* text.
C11_Witness ==
    /\ imported
    /\ \E id \in DOMAIN MODELS :
           env[get_env_variable_keys(MODELS, id).endpoint] = <<>>

\* The suffixes whose five required keys are all set.
CompleteSuffixes ==
    {sfx \in Suffixes : \A kind \in RequiredKinds : Key(kind, sfx) \in DOMAIN env}

\* C12: after the import, every suffix with its five keys set is in the
\* registry whether or not MODEL_<suffix> is set, and the name of every model
\* of the registry is the value of MODEL_<suffix> when that key is set and the
\* value of DEPLOYMENT_NAME_<suffix> otherwise.
C12_DisplayNameOverride ==
    imported =>
        /\ \A sfx \in CompleteSuffixes : Lower(sfx) \in DOMAIN MODELS
        /\ \A id \in DOMAIN MODELS :
               LET sfx == MODELS[id].suffix
               IN MODELS[id].name =
                      IF Key("MODEL", sfx) \in DOMAIN env
                      THEN env[Key("MODEL", sfx)]
                      ELSE env[Key("DEPLOYMENT_NAME", sfx)]

\* The five keys of the group of a suffix, as get_env_variable_keys names them.
OwnKeys(sfx) ==
    [endpoint        |-> Key("ENDPOINT", sfx),
     api_key         |-> Key("API_KEY", sfx),
     api_version     |-> Key("API_VERSION", sfx),
     deployment_name |-> Key("DEPLOYMENT_NAME", sfx),
     api_type        |-> Key("API_TYPE", sfx)]

\* C17: after the import, the registry has as many models as there are
\* suffixes with all five keys set, and the keys of the lowercased suffix of
\* each are the five keys of that suffix itself.
C17_DistinctGroupsDistinctEntries ==
    imported =>
        /\ Cardinality(DOMAIN MODELS) = Cardinality(CompleteSuffixes)
        /\ \A sfx \in CompleteSuffixes :
               /\ Lower(sfx) \in DOMAIN MODELS
               /\ get_env_variable_keys(MODELS, Lower(sfx)) = OwnKeys(sfx)

\* The number a little-endian byte sequence stands for.
RECURSIVE FromLE(_)
FromLE(b) == IF b = <<>> THEN 0 ELSE Head(b) + 256 * FromLE(Tail(b))

\* What wave.open(f, 'rb') tells of a file with a 16-byte fmt chunk followed
\* by the data chunk: the header fields, getnframes() (whole frames of the
\* data chunk) and readframes(getnframes()).
wave_read(f) ==
    LET nchannels == FromLE(SubSeq(f, 23, 24))
        bits      == FromLE(SubSeq(f, 35, 36))
        framesize == nchannels * ((bits + 7) \div 8)
        nframes   == FromLE(SubSeq(f, 41, 44)) \div framesize
    IN [riff      |-> SubSeq(f, 1, 4) \o SubSeq(f, 9, 16) \o SubSeq(f, 37, 40),
        nchannels |-> nchannels,
        framerate |-> FromLE(SubSeq(f, 25, 28)),
        bits      |-> bits,
        nframes   |-> nframes,
        frames    |-> SubSeq(f, 45, 44 + nframes * framesize)]

\* The header a reader must find: RIFF, WAVE, fmt, data; mono, 24000 Hz, 16 bits.
HeaderAsSpecified(rd) ==
    /\ rd.riff = <<82, 73, 70, 70, 87, 65, 86, 69, 102, 109, 116, 32, 100, 97, 116, 97>>
    /\ rd.nchannels = 1
    /\ rd.framerate = 24000
    /\ rd.bits = 16

\* The requests whose WAV file has been written.
Saved == {r \in Requests : tmp_file[r].wav # None}

\* C13 as stated: the file written for a non-empty audio buffer reads back
\* as mono, 24000 Hz, 16 bits, with exactly the bytes of the buffer.
C13_WavRoundTrip ==
    \A r \in Saved :
        LET rd == wave_read(wav_bytes(tmp_file[r].wav[1]))
        IN HeaderAsSpecified(rd) /\ rd.frames = locals[r].audio_buffer

\* C13 amended: the file written for a non-empty audio buffer reads back as
\* mono, 24000 Hz, 16 bits, with exactly the bytes of the buffer when these
\* are a whole number of 16-bit samples, and with all but the last byte
\* otherwise.
C13_WavRoundTripWholeSamples ==
    \A r \in Saved :
        LET audio_buffer == locals[r].audio_buffer
            rd == wave_read(wav_bytes(tmp_file[r].wav[1]))
        IN /\ HeaderAsSpecified(rd)
           /\ rd.frames = SubSeq(audio_buffer, 1, 2 * (Len(audio_buffer) \div 2))

\* C13 witness: a buffer of two whole samples from two chunks has been saved.
C13_Witness ==
    /\ Main \in Saved
    /\ locals[Main].audio_buffer = <<1, 2, 3, 4>>

\* The sink of r has been stopped and closed.
Released(r) == audio_stream[r].closes = 1 /\ ~audio_stream[r].active

\* C14 as stated: on a session where every receive delivers and a terminal
\* message comes, a loop that is receiving eventually has returned, with the
\* sink released.
C14_EventuallyReturns ==
    \A r \in Requests : (pc[r] = "receiving") ~> (Returned(r) /\ Released(r))

\* C14 amended: the loop stops receiving only in a pass that took a terminal
\* message or raised; on a session where every receive delivers and a terminal
\* message comes, a loop that is receiving eventually has ended, by returning
\* or by raising, with the sink released.
C14_LoopTerminates ==
    /\ [][\A r \in Requests :
             pc[r] = "receiving" /\ pc'[r] # "receiving" =>
                 \/ /\ Len(received'[r]) = Len(received[r]) + 1
                    /\ IsTerminal(Last(received'[r]))
                    /\ Returned(r)'
                 \/ outcome'[r].exc # NoExc /\ pc'[r] = "raised"]_vars
    /\ \A r \in Requests :
           (pc[r] = "receiving") ~> (LoopEnded(r) /\ Released(r))

\* C14 witness: the loop took every message of the session, the last one
\* terminal, and returned with the sink released.
C14_Witness ==
    \E r \in Requests :
        /\ Len(received[r]) = MaxLiveMsgs
        /\ Returned(r)
        /\ Released(r)

\* The page of r shows the success indication or a result panel.
ShowsResult(r) == ui[r].success \/ ui[r].text # None \/ ui[r].audio # None

\* C15: the success indication and the result panels are shown only for a
\* run whose loop ended on response.done; a run whose loop ended on an error
\* message shows the error and never the success indication.
C15_SuccessOnlyOnDone ==
    \A r \in Requests :
        /\ ShowsResult(r) =>
               /\ received[r] # <<>>
               /\ Last(received[r]).type = "response.done"
        /\ EndedOnError(r) =>
               /\ \E i \in DOMAIN ui[r].errors :
                      ui[r].errors[i] = <<"Error", Last(received[r]).error>>
               /\ ~ShowsResult(r)

\* The two bytes of a signed 16-bit sample, low byte first.
SampleBytes(x) ==
    LET u == IF x < 0 THEN x + 65536 ELSE x IN <<u % 256, u \div 256>>

\* The bytes of the chunks written to a sink, in the order written.
RECURSIVE SinkBytes(_)
SinkBytes(chunks) ==
    IF chunks = <<>> THEN <<>>
    ELSE LET chunk == Head(chunks)
         IN (IF chunk = <<>> THEN <<>>
             ELSE SampleBytes(Head(chunk)) \o SinkBytes(<<Tail(chunk)>>))
            \o SinkBytes(Tail(chunks))

\* The decoded payloads of the audio deltas among ms, one chunk of samples each.
RECURSIVE ChunksOf(_)
ChunksOf(ms) ==
    IF ms = <<>> THEN <<>>
    ELSE (IF Head(ms).type = "response.audio.delta"
          THEN <<frombuffer(b64decode(Head(ms).delta).bytes)>>
          ELSE <<>>)
         \o ChunksOf(Tail(ms))

\* C16: the bytes written to the sink, chunk after chunk, are the audio
\* buffer, also after a sink write that failed; while the loop is about to ask
\* for the next message, and when it has returned, the chunks written are the
\* decoded payloads of the audio deltas received, one each, in arrival order.
C16_SinkMatchesBuffer ==
    \A r \in Requests :
        /\ SinkBytes(audio_stream[r].written) = locals[r].audio_buffer
        /\ pc[r] = "receiving" \/ Returned(r) =>
               audio_stream[r].written = ChunksOf(received[r])

\* C16 witness: the second chunk's sink write failed; the sink and the buffer
\* hold the first chunk only.
C16_Witness ==
    \E r \in Requests :
        /\ received[r] = <<AudioDelta(B64_12), AudioDelta(B64_34)>>
        /\ outcome[r].exc = "PortAudioError"
        /\ locals[r].audio_buffer = <<1, 2>>
        /\ Len(audio_stream[r].written) = 1

\* The handling of the request of r has ended.
RequestEnded(r) == pc[r] \in {"shown", "raised"}

\* C18: when the handling of a request has ended, the temporary WAV file
\* created for it, if any, has been deleted.
C18_TempFileDeleted ==
    \A r \in Requests :
        RequestEnded(r) /\ tmp_file[r].created => ~tmp_file[r].exists

====
